---- MODULE Spec2Model ----
(***************************************************************************)
(* EduCast Studio backend (src/app.py, src/utils/models.py,                *)
(* src/utils/utility.py) as a state machine.                               *)
(*                                                                         *)
(* The persistent store is the set of rows of the tables users, podcasts,  *)
(* favorite_books and chat_history, plus the audio files on disk.  Every   *)
(* HTTP handler is cut at its database accesses: one action per query or   *)
(* commit, with the local computation between two accesses attached to the *)
(* access that follows it.  The Flask server runs threaded, so requests    *)
(* interleave at these points; a request in flight sits in a slot of req.  *)
(* The background thread of generate_podcast is cut the same way and sits  *)
(* in worker.                                                              *)
(*                                                                         *)
(* SQLAlchemy session behaviour that decides what an UPDATE writes:        *)
(*  - commit expires every attribute, the next attribute read reloads the  *)
(*    row and raises ObjectDeletedError when the row is gone;              *)
(*  - an UPDATE or a flush of a row that is gone raises StaleDataError;    *)
(*  - a DELETE that matches no row only warns;                             *)
(*  - a column with onupdate=datetime.utcnow is set by every UPDATE.       *)
(* Podcast ids are never reused (a serial primary key).  Timestamps of the *)
(* podcast rows are kept as set/unset; those of the user rows are clock    *)
(* values.  A token is its payload (without email and jti) and signature.  *)
(*                                                                         *)
(* Specifications: Spec (podcast lifecycle under concurrent requests),     *)
(* SpecAccess (podcast access, one request at a time), SpecAuth (tokens    *)
(* and the clock), SpecGate (every protected endpoint under every kind of  *)
(* header), SpecFavSeq and SpecFav (favorites, sequential and concurrent), *)
(* SpecUsers (registration and profile changes), SpecBooks (the book      *)
(* listing), SpecOwner (likes and plays by both users), SpecLive (Spec    *)
(* under fair scheduling), SpecLikes (concurrent likes), SpecNames (names  *)
(* sent to register and profile-update).                                   *)
(***************************************************************************)
EXTENDS Integers, FiniteSets, Sequences, Bags, TLC

VARIABLES
    now,            \* the clock, in hours (datetime.utcnow)
    users,          \* users table: id -> row
    issued,         \* tokens handed out by login
    podcasts,       \* podcasts table: id -> row
    nextPodcastId,  \* next value of the podcasts primary key
    files,          \* ids of the podcasts with a file under UPLOAD_FOLDER
    scratch,        \* ids of the podcasts whose worker's temp dir exists
    worker,         \* background threads: podcast id -> position
    favorites,      \* favorite_books table: bag of <<user_id, book_id>>
    chat,           \* chat_history table: <<user_id, session>> -> rows
    req,            \* requests in flight: slot -> position and locals
    resp            \* the last HTTP response sent

authVars == <<now, users, issued>>
podVars  == <<podcasts, nextPodcastId, files, scratch, worker>>
vars     == <<now, users, issued, podcasts, nextPodcastId, files, scratch,
             worker, favorites, chat, req, resp>>

-----------------------------------------------------------------------------
(* Bounds of the model *)

MaxReq == 2          \* requests in flight at once
MaxPodcasts == 2     \* podcast rows ever inserted
MaxCount == 1        \* cap of the play and like counters
TickHours == 12      \* hours the clock advances in one step
MaxClock == 36       \* the clock stops here
MaxTokens == 2        \* tokens login issues in one behaviour
MaxUsers == 3         \* rows of the users table
MaxChatRows == 2     \* cap of the rows of one chat session

(* Program constants *)

JWT_EXPIRATION == 24         \* app.config['JWT_EXPIRATION_HOURS']
JWT_SECRET_KEY == "educast-secret-key-2023-change-in-production"
CatalogMin == 1              \* add_favorite_book: 1 <= book_id <= 12
CatalogMax == 12

Slots == 1..MaxReq
AdminId == 1
TestUserId == 2
PodcastBooks == {1}          \* book ids sent to generate_podcast
FavoriteBooks == {CatalogMin - 1, CatalogMin, CatalogMax, CatalogMax + 1}
Sessions == {"s1"}

Idle == [pc |-> "idle"]

NoTime == 0 - 1              \* a NULL timestamp

-----------------------------------------------------------------------------
(* Authentication layer: app.py 45-100 *)

\* HS256 over the payload under a key: only the same key and the same payload
\* give the same signature.
HS256(key, user_id, role, exp, iat) == <<key, user_id, role, exp, iat>>

\* create_jwt_token: the payload (the email and the random jti are left out)
\* signed with JWT_SECRET_KEY; exp is JWT_EXPIRATION hours after the issue time.
create_jwt_token(user_id, role) ==
    [user_id |-> user_id, role |-> role,
     exp |-> now + JWT_EXPIRATION, iat |-> now,
     sig |-> HS256(JWT_SECRET_KEY, user_id, role, now + JWT_EXPIRATION, now)]

\* jwt.decode: the signature is recomputed over the payload presented, and
\* the token is expired once the clock has reached exp.  Two variants for
\* comparison: one that accepts every token, and one that also refuses a
\* token issued no later than its user's last logout.
verify_jwt_token_lax(t) == TRUE
verify_jwt_token_revocable(t) ==
    /\ t.sig = HS256(JWT_SECRET_KEY, t.user_id, t.role, t.exp, t.iat)
    /\ now < t.exp
    /\ t.user_id \in DOMAIN users => users[t.user_id].last_logout < t.iat
verify_jwt_token(t) ==
    /\ t.sig = HS256(JWT_SECRET_KEY, t.user_id, t.role, t.exp, t.iat)
    /\ now < t.exp

\* The Authorization header of a request.
NoHeader == [scheme |-> "none"]
Bearer(t) == [scheme |-> "Bearer", token |-> t]

\* A token whose signature bytes were changed, and one whose payload was.
AlterSignature(t) == [t EXCEPT !.sig = <<"altered", t.user_id, t.role, t.exp, t.iat>>]
AlterUser(t, u) == [t EXCEPT !.user_id = u, !.role = "admin"]
ExtendExpiry(t) == [t EXCEPT !.exp = t.exp + JWT_EXPIRATION]

TokenInputs ==
    issued \cup {AlterSignature(t) : t \in issued}
           \cup {AlterUser(t, AdminId) : t \in issued}
           \cup {ExtendExpiry(t) : t \in issued}

HeaderInputs ==
    {NoHeader} \cup {Bearer(t) : t \in TokenInputs}
               \cup {[scheme |-> "Basic", token |-> t] : t \in issued}

\* get_current_user: the id of the user the header resolves to, or 0.  The
\* variant trusts the user id of whatever token is presented.
get_current_user_unchecked(h) == IF h.scheme = "none" THEN 0 ELSE h.token.user_id
get_current_user(h) ==
    IF h.scheme # "Bearer" THEN 0
    ELSE IF ~verify_jwt_token(h.token) THEN 0
    ELSE IF h.token.user_id \in DOMAIN users THEN h.token.user_id
    ELSE 0

\* jwt_required and admin_required: the status the decorator answers with,
\* or 0 when it lets the request through to the handler.
jwt_required(h) == IF get_current_user(h) = 0 THEN 401 ELSE 0

admin_required(h) ==
    IF get_current_user(h) = 0 THEN 401
    ELSE IF users[get_current_user(h)].role # "admin" THEN 403
    ELSE 0

\* The response of a request: the endpoint, the HTTP status, the user the
\* request was authenticated as (0: none), its argument and the payload.
NoResp == [op |-> "none", code |-> 0, u |-> 0, arg |-> 0, data |-> 0]
Respond(op, code, u, arg, data) ==
    resp' = [op |-> op, code |-> code, u |-> u, arg |-> arg, data |-> data]

\* A handler or thread runs a step only once the previous response has left.
Ready == resp = NoResp

\* The slot a new request takes: the lowest free one.
Free(r) == req[r].pc = "idle" /\ \A q \in Slots : q < r => req[q].pc # "idle"
Finish(r) == [req EXCEPT ![r] = Idle]

\* An UPDATE of a users row: the columns written plus onupdate of updated_at.
TouchUser(u, row) == [users EXCEPT ![u] = [row EXCEPT !.updated_at = now]]

\* datetime.utcnow advancing between two steps.
Tick(hours) ==
    /\ Ready
    /\ now + hours <= MaxClock
    /\ now' = now + hours
    /\ UNCHANGED <<users, issued, podVars, favorites, chat, req, resp>>

\* The response reaches the client.
Deliver ==
    /\ resp # NoResp
    /\ resp' = NoResp
    /\ UNCHANGED <<authVars, podVars, favorites, chat, req>>

-----------------------------------------------------------------------------
(* Users: models.py 9-75, app.py 1578-1617 *)

Hash(password) == <<"bcrypt", password>>

\* initialize_database: the default admin and the test user.
InitUsers ==
    (AdminId :> [role |-> "admin", email |-> "admin@educast.com",
                 name |-> "System Administrator", password |-> Hash("Admin@123"),
                 bio |-> "", last_login |-> NoTime, last_logout |-> NoTime,
                 updated_at |-> 0])
    @@ (TestUserId :> [role |-> "user", email |-> "user@educast.com",
                 name |-> "Test User", password |-> Hash("User@123"),
                 bio |-> "", last_login |-> NoTime, last_logout |-> NoTime,
                 updated_at |-> 0])

Init ==
    /\ now = 0
    /\ users = InitUsers
    /\ issued = {}
    /\ podcasts = << >>
    /\ nextPodcastId = 1
    /\ files = {}
    /\ scratch = {}
    /\ worker = << >>
    /\ favorites = EmptyBag
    /\ chat = [k \in (1..MaxUsers) \X Sessions |-> 0]
    /\ req = [r \in Slots |-> Idle]
    /\ resp = NoResp

\* User.query.filter_by(email=email).first(): the user's id, or 0.
UserByEmail(email) ==
    IF \E u \in DOMAIN users : users[u].email = email
    THEN CHOOSE u \in DOMAIN users : users[u].email = email
    ELSE 0

\* validate_email (utility.py 72-78), on the addresses the model sends.
Emails == {"admin@educast.com", "user@educast.com", "not-an-email"}
validate_email(email) == email # "not-an-email"

Passwords == {"Admin@123", "User@123"}

\* login: app.py 188-222.  body is "missing" when a field is absent.
login(body, email, password) ==
    /\ Ready
    /\ UNCHANGED <<now, podVars, favorites, chat, req>>
    /\ LET u == UserByEmail(email) IN
       IF body = "missing" \/ ~validate_email(email)
       THEN /\ Respond("login", 400, 0, 0, 0)
            /\ UNCHANGED <<users, issued>>
       ELSE IF u # 0 /\ users[u].password = Hash(password)
       THEN /\ Cardinality(issued \cup {create_jwt_token(u, users[u].role)}) <= MaxTokens
            /\ users' = TouchUser(u, [users[u] EXCEPT !.last_login = now])
            /\ issued' = issued \cup {create_jwt_token(u, users[u].role)}
            /\ Respond("login", 200, u, 0, create_jwt_token(u, users[u].role))
       ELSE /\ Respond("login", 401, 0, 0, 0)
            /\ UNCHANGED <<users, issued>>

\* validate_token: app.py 224-249.  The token comes in the body.
validate_token(empty, t) ==
    /\ Ready
    /\ UNCHANGED <<authVars, podVars, favorites, chat, req>>
    /\ IF empty THEN Respond("validate", 400, 0, 0, 0)
       ELSE IF ~verify_jwt_token(t) THEN Respond("validate", 401, 0, 0, t)
       ELSE IF t.user_id \notin DOMAIN users THEN Respond("validate", 404, 0, 0, t)
       ELSE Respond("validate", 200, t.user_id, t.exp, t)

\* logout: app.py 251-262.
logout(h) ==
    /\ Ready
    /\ UNCHANGED <<now, issued, podVars, favorites, chat, req>>
    /\ LET u == get_current_user(h) IN
       IF jwt_required(h) # 0
       THEN /\ Respond("logout", 401, 0, 0, 0)
            /\ UNCHANGED users
       ELSE /\ users' = TouchUser(u, [users[u] EXCEPT !.last_logout = now])
            /\ Respond("logout", 200, u, 0, 0)

\* profile (GET): app.py 284-297.
profile(h) ==
    /\ Ready
    /\ UNCHANGED <<authVars, podVars, favorites, chat, req>>
    /\ IF jwt_required(h) # 0
       THEN Respond("profile", 401, 0, 0, 0)
       ELSE Respond("profile", 200, get_current_user(h), 0, 0)

-----------------------------------------------------------------------------
(* Podcast lifecycle: handlers, app.py 753-848 and 974-1071 *)

Without(f, k) == [x \in (DOMAIN f) \ {k} |-> f[x]]

\* The Podcast(...) of generate_podcast, lines 801-819.
NewPodcast(u, b) ==
    [user_id |-> u, book_id |-> b, status |-> "pending", progress |-> 0,
     audio_url |-> FALSE, error_message |-> "", completed_at |-> FALSE,
     play_count |-> 0, like_count |-> 0]

\* Podcast.query.filter_by(user_id=..., book_id=...): the matching ids.
PodcastsOf(u, b) ==
    {p \in DOMAIN podcasts : podcasts[p].user_id = u /\ podcasts[p].book_id = b}

\* Podcast.query.filter_by(id=..., user_id=...).first() finds a row.  The
\* variant is the query by id alone.
OwnedAnyUser(u, p) == p \in DOMAIN podcasts
Owned(u, p) == p \in DOMAIN podcasts /\ podcasts[p].user_id = u

\* Rows the model may still insert: ids are handed out up to MaxPodcasts.
Inserting == {r \in Slots : req[r].pc = "insert"}
IdsLeft == nextPodcastId + Cardinality(Inserting) <= MaxPodcasts

\* The pre-check of lines 781-791 finds a row to return.
Precheck(u, b) == PodcastsOf(u, b)

\* generate_podcast up to the pre-check: lines 755-791.  shape tells which
\* of the body's fields are missing or blank.
generate_podcast(r, h, b, shape) ==
    /\ Ready /\ Free(r)
    /\ UNCHANGED <<authVars, podVars, favorites, chat>>
    /\ LET u == get_current_user(h) IN
       IF jwt_required(h) # 0
       THEN Respond("generate", 401, 0, b, 0) /\ UNCHANGED req
       ELSE IF shape # "ok"
       THEN Respond("generate", 400, u, b, 0) /\ UNCHANGED req
       ELSE IF Precheck(u, b) # {}
       THEN /\ \E p \in Precheck(u, b) :
                 Respond("generate", 200, u, b,
                         [id |-> p, status |-> podcasts[p].status,
                          progress |-> podcasts[p].progress, created |-> FALSE])
            /\ UNCHANGED req
       ELSE /\ IdsLeft
            /\ req' = [req EXCEPT ![r] = [pc |-> "insert", u |-> u, arg |-> b]]
            /\ UNCHANGED resp

\* db.session.add(podcast); db.session.commit(): lines 821-822.
gp_insert(r) ==
    /\ Ready /\ req[r].pc = "insert"
    /\ podcasts' = (nextPodcastId :> NewPodcast(req[r].u, req[r].arg)) @@ podcasts
    /\ nextPodcastId' = nextPodcastId + 1
    /\ req' = [req EXCEPT ![r] = [pc |-> "start", u |-> req[r].u, arg |-> nextPodcastId]]
    /\ UNCHANGED <<authVars, files, scratch, worker, favorites, chat, resp>>

\* podcast.id reloads the row, then the thread starts: lines 825-831.  With
\* the row gone the reload raises and the handler answers 500.
gp_start(r) ==
    /\ Ready /\ req[r].pc = "start"
    /\ UNCHANGED <<authVars, podcasts, nextPodcastId, files, scratch, favorites, chat>>
    /\ IF req[r].arg \in DOMAIN podcasts
       THEN /\ worker' = (req[r].arg :> [pc |-> "load"]) @@ worker
            /\ req' = [req EXCEPT ![r].pc = "flip"]
            /\ UNCHANGED resp
       ELSE /\ Respond("generate", 500, req[r].u, req[r].arg, 0)
            /\ req' = Finish(r)
            /\ UNCHANGED worker

\* status = 'processing'; progress = 10; commit: lines 833-836.  The UPDATE
\* writes both columns whatever the worker has written meanwhile.
FlipRow(row) == [row EXCEPT !.status = "processing", !.progress = 10]
gp_flip(r) ==
    /\ Ready /\ req[r].pc = "flip"
    /\ UNCHANGED <<authVars, nextPodcastId, files, scratch, worker, favorites, chat>>
    /\ IF req[r].arg \in DOMAIN podcasts
       THEN /\ podcasts' = [podcasts EXCEPT ![req[r].arg] = FlipRow(@)]
            /\ req' = [req EXCEPT ![r].pc = "reply"]
            /\ UNCHANGED resp
       ELSE /\ Respond("generate", 500, req[r].u, req[r].arg, 0)
            /\ req' = Finish(r)
            /\ UNCHANGED podcasts

\* podcast.to_dict() reloads the row for the response: lines 838-842.
gp_reply(r) ==
    /\ Ready /\ req[r].pc = "reply"
    /\ UNCHANGED <<authVars, podVars, favorites, chat>>
    /\ req' = Finish(r)
    /\ IF req[r].arg \in DOMAIN podcasts
       THEN Respond("generate", 200, req[r].u, podcasts[req[r].arg].book_id,
                    [id |-> req[r].arg, status |-> podcasts[req[r].arg].status,
                     progress |-> podcasts[req[r].arg].progress, created |-> TRUE])
       ELSE Respond("generate", 500, req[r].u, req[r].arg, 0)

\* get_podcast: lines 974-1012.  increment_play_count commits play_count + 1.
get_podcast(h, p, play) ==
    /\ Ready
    /\ UNCHANGED <<authVars, nextPodcastId, files, scratch, worker, favorites, chat, req>>
    /\ LET u == get_current_user(h) IN
       IF jwt_required(h) # 0
       THEN Respond("get", 401, 0, p, 0) /\ UNCHANGED podcasts
       ELSE IF ~Owned(u, p)
       THEN Respond("get", 404, u, p, 0) /\ UNCHANGED podcasts
       ELSE IF play
       THEN /\ podcasts[p].play_count < MaxCount
            /\ podcasts' = [podcasts EXCEPT ![p].play_count = @ + 1]
            /\ Respond("get", 200, u, p, podcasts[p].status)
       ELSE Respond("get", 200, u, p, podcasts[p].status) /\ UNCHANGED podcasts

\* delete_podcast up to the file removal: lines 1014-1035.  os.remove may
\* fail; the error is logged and the handler goes on.
delete_podcast(r, h, p, removed) ==
    /\ Ready /\ Free(r)
    /\ UNCHANGED <<authVars, podcasts, nextPodcastId, scratch, worker, favorites, chat>>
    /\ LET u == get_current_user(h) IN
       IF jwt_required(h) # 0
       THEN Respond("delete", 401, 0, p, 0) /\ UNCHANGED <<req, files>>
       ELSE IF ~Owned(u, p)
       THEN Respond("delete", 404, u, p, 0) /\ UNCHANGED <<req, files>>
       ELSE /\ files' = IF podcasts[p].audio_url /\ removed THEN files \ {p} ELSE files
            /\ req' = [req EXCEPT ![r] = [pc |-> "delete", u |-> u, arg |-> p]]
            /\ UNCHANGED resp

\* db.session.delete(podcast); commit: lines 1037-1043.
dp_commit(r) ==
    /\ Ready /\ req[r].pc = "delete"
    /\ podcasts' = Without(podcasts, req[r].arg)
    /\ req' = Finish(r)
    /\ Respond("delete", 200, req[r].u, req[r].arg, 0)
    /\ UNCHANGED <<authVars, nextPodcastId, files, scratch, worker, favorites, chat>>

-----------------------------------------------------------------------------
(* Background worker: generate_podcast_audio_background, app.py 850-917.   *)
(* The thread is cut at its commits; the reload of the row that precedes a *)
(* commit (podcast.tone, podcast.id) is part of the step of that commit,   *)
(* except before shutil.move, where the file lands between the reload and  *)
(* the commit.                                                             *)

At(p, pc) == p \in DOMAIN worker /\ worker[p].pc = pc
Goto(p, pc) == [worker EXCEPT ![p].pc = pc]

\* The variant that goes on without the row.
w_loadUnchecked(p) ==
    /\ Ready /\ At(p, "load")
    /\ UNCHANGED <<authVars, podcasts, nextPodcastId, files, favorites, chat, req, resp>>
    /\ scratch' = scratch \cup {p}
    /\ worker' = Goto(p, "tts")

\* Podcast.query.get and the return of line 856 when the row is gone (the
\* thread is then at "returned", not at "done"); else mkdtemp,
\* progress = 30 and the commit of line 866.  script, duration and tags are
\* assigned the values they hold, so the UPDATE writes progress alone.
w_load(p) ==
    /\ Ready /\ At(p, "load")
    /\ UNCHANGED <<authVars, nextPodcastId, files, favorites, chat, req, resp>>
    /\ IF p \in DOMAIN podcasts
       THEN /\ scratch' = scratch \cup {p}
            /\ podcasts' = [podcasts EXCEPT ![p].progress = 30]
            /\ worker' = Goto(p, "tts")
       ELSE UNCHANGED <<scratch, podcasts>> /\ worker' = Goto(p, "returned")

\* Podcast.validate_status and validate_progress, models.py 131-142: the
\* values the row's validators let through on an assignment.
valid_statuses == {"pending", "processing", "completed", "failed", "cancelled"}
validate_status(status) == status \in valid_statuses
validate_progress(progress) == 0 <= progress /\ progress <= 100

\* What the commit of line 902 writes when a step failed, and the removal
\* of the temp dir after it.
FailedRowCancelled(row, message) ==
    [row EXCEPT !.status = "cancelled", !.error_message = message]
FailedRow(row, message) == [row EXCEPT !.status = "failed", !.error_message = message]

\* generate_audio_with_pyttsx3 returns success or failure (it catches every
\* exception).  Success: progress = 70 and the commit of line 874.  Failure:
\* status = 'failed', the commit of line 902 and the cleanup of 905-906.
w_tts(p, success) ==
    /\ Ready /\ At(p, "tts")
    /\ UNCHANGED <<authVars, nextPodcastId, files, favorites, chat, req, resp>>
    /\ IF p \notin DOMAIN podcasts
       THEN worker' = Goto(p, "except") /\ UNCHANGED <<podcasts, scratch>>
       ELSE IF success
       THEN /\ podcasts' = [podcasts EXCEPT ![p].progress = 70]
            /\ worker' = Goto(p, "trim")
            /\ UNCHANGED scratch
       ELSE /\ podcasts' = [podcasts EXCEPT ![p] = FailedRow(@, "tts failed")]
            /\ scratch' = scratch \ {p}
            /\ worker' = Goto(p, "done")

\* limit_audio_duration.  Success: podcast.id reloads the row and shutil.move
\* puts the file under UPLOAD_FOLDER (the move may raise): lines 876-887.
\* Failure: status = 'failed', the commit of line 902 and the cleanup.
w_trim(p, success_duration, moved) ==
    /\ Ready /\ At(p, "trim")
    /\ UNCHANGED <<authVars, nextPodcastId, favorites, chat, req, resp>>
    /\ IF p \notin DOMAIN podcasts
       THEN worker' = Goto(p, "except") /\ UNCHANGED <<podcasts, files, scratch>>
       ELSE IF ~success_duration
       THEN /\ podcasts' = [podcasts EXCEPT ![p] = FailedRow(@, "trim failed")]
            /\ scratch' = scratch \ {p}
            /\ worker' = Goto(p, "done")
            /\ UNCHANGED files
       ELSE IF ~moved
       THEN worker' = Goto(p, "except") /\ UNCHANGED <<podcasts, files, scratch>>
       ELSE /\ files' = files \cup {p}
            /\ worker' = Goto(p, "final")
            /\ UNCHANGED <<podcasts, scratch>>

\* audio_url, status = 'completed', progress = 100, completed_at and the
\* commit of line 902, then the removal of the temp dir: lines 889-906.
CompletedRowKeepsProgress(row) ==
    [row EXCEPT !.audio_url = TRUE, !.status = "completed", !.completed_at = TRUE]
CompletedRow(row) ==
    [row EXCEPT !.audio_url = TRUE, !.status = "completed",
                !.progress = 100, !.completed_at = TRUE]
w_final(p) ==
    /\ Ready /\ At(p, "final")
    /\ UNCHANGED <<authVars, nextPodcastId, files, favorites, chat, req, resp>>
    /\ IF p \in DOMAIN podcasts
       THEN /\ podcasts' = [podcasts EXCEPT ![p] = CompletedRow(@)]
            /\ scratch' = scratch \ {p}
            /\ worker' = Goto(p, "done")
       ELSE UNCHANGED <<podcasts, scratch>> /\ worker' = Goto(p, "except")

\* The variant whose except branch only logs.
w_exceptLogsOnly(p) ==
    /\ Ready /\ At(p, "except")
    /\ worker' = Goto(p, "done")
    /\ UNCHANGED <<authVars, podcasts, nextPodcastId, files, scratch, favorites, chat, req, resp>>

\* The except branch, lines 908-917: status = 'failed', then podcast.duration
\* reloads the row (the thread dies when it is gone) and the commit writes.
\* A failed commit has rolled the session back, so nothing else is written.
w_except(p) ==
    /\ Ready /\ At(p, "except")
    /\ UNCHANGED <<authVars, nextPodcastId, files, scratch, favorites, chat, req, resp>>
    /\ worker' = Goto(p, "done")
    /\ IF p \in DOMAIN podcasts
       THEN podcasts' = [podcasts EXCEPT ![p] = FailedRow(@, "exception")]
       ELSE UNCHANGED podcasts

PodcastIds == 1..MaxPodcasts

WorkerNext ==
    \E p \in PodcastIds :
        \/ w_load(p)
        \/ \E ok \in BOOLEAN : w_tts(p, ok)
        \/ \E ok \in BOOLEAN, moved \in BOOLEAN : w_trim(p, ok, moved)
        \/ w_final(p)
        \/ w_except(p)

-----------------------------------------------------------------------------
(* The other protected endpoints *)

\* A protected endpoint that only reads: 401 from jwt_required, else 200.
ReadOnly(op, h, arg, data) ==
    /\ Ready
    /\ UNCHANGED <<authVars, podVars, favorites, chat, req>>
    /\ IF jwt_required(h) # 0
       THEN Respond(op, 401, 0, arg, 0)
       ELSE Respond(op, 200, get_current_user(h), arg, data)

\* get_books, get_genres: app.py 365-652, 725-751 (the listing is a pure
\* function of the static catalog).  get_book: 654-723, whose catalog holds
\* the books 1..3.
get_genres(h) == ReadOnly("genres", h, 0, 0)
get_book(h, b) ==
    /\ Ready
    /\ UNCHANGED <<authVars, podVars, favorites, chat, req>>
    /\ IF jwt_required(h) # 0 THEN Respond("book", 401, 0, b, 0)
       ELSE IF b \notin 1..3 THEN Respond("book", 404, get_current_user(h), b, 0)
       ELSE Respond("book", 200, get_current_user(h), b, 0)

\* get_user_podcasts: app.py 919-972.
get_user_podcasts(h) ==
    ReadOnly("podcasts", h, 0,
             {p \in DOMAIN podcasts : podcasts[p].user_id = get_current_user(h)})

\* The characters of the names the model sends or stores.
NameChars(name) ==
    CASE name = "x" -> <<"x">>
      [] name = "New User" -> <<"N", "e", "w", " ", "U", "s", "e", "r">>
      [] name = "Test User" -> <<"T", "e", "s", "t", " ", "U", "s", "e", "r">>
      [] name = "System Administrator" -> <<"S", "y", "s", "t", "e", "m", " ", "A", "d", "m", "i", "n", "i", "s", "t", "r", "a", "t", "o", "r">>
      [] name = "Ann Lee" -> <<"A", "n", "n", " ", "L", "e", "e">>
      [] name = "R2-D2" -> <<"R", "2", "-", "D", "2">>
      [] name = "O'Neil Jr." -> <<"O", "'", "N", "e", "i", "l", " ", "J", "r", ".">>

\* The class [a-zA-Z\s\-'\.] of the pattern of line 116.
NameClass ==
    {"a", "b", "c", "d", "e", "f", "g", "h", "i", "j", "k", "l",
     "m", "n", "o", "p", "q", "r", "s", "t", "u", "v", "w", "x",
     "y", "z", "A", "B", "C", "D", "E", "F", "G", "H", "I", "J",
     "K", "L", "M", "N", "O", "P", "Q", "R", "S", "T", "U", "V",
     "W", "X", "Y", "Z",
     " ", "-", "'", "."}
MinNameLength == 2
MaxNameLength == 100

\* validate_name (utility.py 103-119) returns a pair (is_valid, message): the
\* name is required, has 2 to 100 characters and matches the pattern.  The
\* names sent have no blanks around them, so strip() changes nothing.
validate_name(name) ==
    IF Len(NameChars(name)) = 0
    THEN <<FALSE, "Name is required">>
    ELSE IF Len(NameChars(name)) < MinNameLength
    THEN <<FALSE, "Name must be at least 2 characters long">>
    ELSE IF Len(NameChars(name)) > MaxNameLength
    THEN <<FALSE, "Name must be less than 100 characters">>
    ELSE IF \E k \in 1..Len(NameChars(name)) : NameChars(name)[k] \notin NameClass
    THEN <<FALSE, "Name can only contain letters, spaces, hyphens, apostrophes, and periods">>
    ELSE <<TRUE, "Name is valid">>

\* Python's truth value of a tuple: it is true unless the tuple is empty.
Truthy(tuple) == Len(tuple) > 0

Absent == "(absent)"

\* users.email is unique (models.py 15): an INSERT or UPDATE that would give
\* the email to a second row is refused.
unique_email(u, email) ==
    \A v \in DOMAIN users : users[v].email = email => v = u

\* update_profile up to the commit: app.py 299-326.  name, email and bio are
\* Absent when the body does not hold them.  Without a new email nothing is
\* read between the lookup of the user and the commit, and the handler is
\* one step.
update_profile(r, h, name, email, bio) ==
    /\ Ready /\ Free(r)
    /\ UNCHANGED <<now, issued, podVars, favorites, chat>>
    /\ LET u == get_current_user(h)
           named == IF name # Absent /\ Truthy(validate_name(name))
                    THEN [users[u] EXCEPT !.name = name] ELSE users[u]
           newmail == email # Absent /\ validate_email(email) /\ email # users[u].email
           row == IF bio # Absent THEN [named EXCEPT !.bio = bio] ELSE named
       IN
       IF jwt_required(h) # 0
       THEN Respond("update_profile", 401, 0, 0, [email |-> email])
            /\ UNCHANGED <<users, req>>
       ELSE IF newmail /\ UserByEmail(email) # 0
       THEN Respond("update_profile", 409, u, 0, [email |-> email])
            /\ UNCHANGED <<users, req>>
       ELSE IF newmail
       THEN /\ req' = [req EXCEPT ![r] = [pc |-> "profile", u |-> u, arg |-> 0,
                                          name |-> row.name, bio |-> row.bio,
                                          email |-> email]]
            /\ UNCHANGED <<users, resp>>
       ELSE /\ users' = TouchUser(u, row)
            /\ Respond("update_profile", 200, u, 0, [email |-> email])
            /\ UNCHANGED req

\* user.email = email; user.updated_at = utcnow(); commit: lines 320-332.  The
\* UPDATE writes the columns that were set; the IntegrityError of the unique
\* email is caught, rolled back and answered with 500.
up_commit(r) ==
    /\ Ready /\ req[r].pc = "profile"
    /\ UNCHANGED <<now, issued, podVars, favorites, chat>>
    /\ req' = Finish(r)
    /\ IF unique_email(req[r].u, req[r].email)
       THEN /\ users' = TouchUser(req[r].u,
                            [users[req[r].u] EXCEPT !.name = req[r].name,
                                                    !.bio = req[r].bio,
                                                    !.email = req[r].email])
            /\ Respond("update_profile", 200, req[r].u, 0, [email |-> req[r].email])
       ELSE /\ UNCHANGED users
            /\ Respond("update_profile", 500, req[r].u, 0, [email |-> req[r].email])

\* The characters of the passwords the model sends.
Chars(password) ==
    CASE password = "abc" -> <<"a", "b", "c">>
      [] password = "abcdefgh" -> <<"a", "b", "c", "d", "e", "f", "g", "h">>
      [] password = "Abcdefgh" -> <<"A", "b", "c", "d", "e", "f", "g", "h">>
      [] password = "Abcdefg1" -> <<"A", "b", "c", "d", "e", "f", "g", "1">>
      [] password = "ABCDEFG1@" -> <<"A", "B", "C", "D", "E", "F", "G", "1", "@">>
      [] password = "Admin@123" -> <<"A", "d", "m", "i", "n", "@", "1", "2", "3">>
      [] password = "User@123" -> <<"U", "s", "e", "r", "@", "1", "2", "3">>
      [] password = "Fresh@123" -> <<"F", "r", "e", "s", "h", "@", "1", "2", "3">>

Upper == {"A", "B", "C", "D", "E", "F", "G", "U"}
Lower == {"a", "b", "c", "d", "e", "f", "g", "h", "i", "m", "n", "r", "s"}
Digit == {"1", "2", "3"}
Special == {"@"}
MinPasswordLength == 8

\* re.search(class, password)
Has(class, password) ==
    \E i \in 1..Len(Chars(password)) : Chars(password)[i] \in class

\* validate_password (utility.py 80-101): the pair (is_valid, message); the
\* first rule that fails decides the message.
validate_password(password) ==
    IF Len(Chars(password)) < MinPasswordLength
    THEN <<FALSE, "Password must be at least 8 characters long">>
    ELSE IF ~Has(Upper, password)
    THEN <<FALSE, "Password must contain at least one uppercase letter">>
    ELSE IF ~Has(Lower, password)
    THEN <<FALSE, "Password must contain at least one lowercase letter">>
    ELSE IF ~Has(Digit, password)
    THEN <<FALSE, "Password must contain at least one number">>
    ELSE IF ~Has(Special, password)
    THEN <<FALSE, "Password must contain at least one special character">>
    ELSE <<TRUE, "Password is valid">>

\* change_password: app.py 334-362.
change_password(h, current, new) ==
    /\ Ready
    /\ UNCHANGED <<now, issued, podVars, favorites, chat, req>>
    /\ LET u == get_current_user(h) IN
       IF jwt_required(h) # 0
       THEN Respond("change_password", 401, 0, 0, 0) /\ UNCHANGED users
       ELSE IF users[u].password # Hash(current)
       THEN Respond("change_password", 401, u, 0, 0) /\ UNCHANGED users
       ELSE IF ~validate_password(new)[1]
       THEN Respond("change_password", 400, u, 0, 0) /\ UNCHANGED users
       ELSE /\ users' = TouchUser(u, [users[u] EXCEPT !.password = Hash(new)])
            /\ Respond("change_password", 200, u, 0, 0)

\* The form a register request sends, echoed with the answer's message.
Form(name, email, password, message) ==
    [name |-> name, email |-> email, password |-> password, message |-> message]

\* register up to the query for the email: app.py 136-161.  body is
\* "missing" when a field is absent.
register(r, body, name, email, password) ==
    /\ Ready /\ Free(r)
    /\ UNCHANGED <<authVars, podVars, favorites, chat>>
    /\ IF body = "missing"
       THEN Respond("register", 400, 0, 0,
                    Form(name, email, password, "All fields are required"))
            /\ UNCHANGED req
       ELSE IF ~validate_name(name)[1]
       THEN Respond("register", 400, 0, 0,
                    Form(name, email, password, validate_name(name)[2]))
            /\ UNCHANGED req
       ELSE IF ~validate_email(email)
       THEN Respond("register", 400, 0, 0,
                    Form(name, email, password, "Please provide a valid email address"))
            /\ UNCHANGED req
       ELSE IF ~validate_password(password)[1]
       THEN Respond("register", 400, 0, 0,
                    Form(name, email, password, validate_password(password)[2]))
            /\ UNCHANGED req
       ELSE IF UserByEmail(email) # 0
       THEN Respond("register", 409, 0, 0,
                    Form(name, email, password, "User already exists with this email"))
            /\ UNCHANGED req
       ELSE /\ req' = [req EXCEPT ![r] = [pc |-> "register", u |-> 0, arg |-> 0,
                                          name |-> name, email |-> email,
                                          password |-> password]]
            /\ UNCHANGED resp

\* The User(...) of register, lines 163-169.
NewUser(name, email, password) ==
    [role |-> "user", email |-> email, name |-> name, password |-> Hash(password),
     bio |-> "", last_login |-> NoTime, last_logout |-> NoTime, updated_at |-> now]

\* db.session.add(user); commit; create_jwt_token: lines 171-186.  The
\* IntegrityError of the unique email is caught, rolled back and answered 500.
rg_commit(r) ==
    /\ Ready /\ req[r].pc = "register"
    /\ UNCHANGED <<now, podVars, favorites, chat>>
    /\ req' = Finish(r)
    /\ LET id == Cardinality(DOMAIN users) + 1
           form == Form(req[r].name, req[r].email, req[r].password, "")
       IN
       IF unique_email(0, req[r].email)
       THEN /\ id <= MaxUsers
            /\ Cardinality(issued \cup {create_jwt_token(id, "user")}) <= MaxTokens
            /\ users' = users @@ (id :> NewUser(req[r].name, req[r].email, req[r].password))
            /\ issued' = issued \cup {create_jwt_token(id, "user")}
            /\ Respond("register", 201, id, 0, form)
       ELSE /\ UNCHANGED <<users, issued>>
            /\ Respond("register", 500, 0, 0, form)

\* like_podcast up to the query: app.py 1050-1061.  The row is looked up by
\* id alone.
like_podcast(r, h, p) ==
    /\ Ready /\ Free(r)
    /\ UNCHANGED <<authVars, podVars, favorites, chat>>
    /\ LET u == get_current_user(h) IN
       IF jwt_required(h) # 0
       THEN Respond("like", 401, 0, p, 0) /\ UNCHANGED req
       ELSE IF p \notin DOMAIN podcasts
       THEN Respond("like", 404, u, p, 0) /\ UNCHANGED req
       ELSE /\ podcasts[p].like_count < MaxCount
            /\ req' = [req EXCEPT ![r] = [pc |-> "like", u |-> u, arg |-> p,
                                          read |-> podcasts[p].like_count]]
            /\ UNCHANGED resp

\* The variant that increments in the database (like_count = like_count + 1
\* in the UPDATE itself).
lp_commitAtomic(r) ==
    /\ Ready /\ req[r].pc = "like"
    /\ UNCHANGED <<authVars, nextPodcastId, files, scratch, worker, favorites, chat>>
    /\ req' = Finish(r)
    /\ IF req[r].arg \in DOMAIN podcasts
       THEN /\ podcasts' = [podcasts EXCEPT ![req[r].arg].like_count = @ + 1]
            /\ Respond("like", 200, req[r].u, req[r].arg,
                       podcasts[req[r].arg].like_count + 1)
       ELSE /\ Respond("like", 500, req[r].u, req[r].arg, 0)
            /\ UNCHANGED podcasts

\* increment_like_count: like_count = the value read + 1, commit
\* (models.py 180-183); the UPDATE of a row that is gone raises, 500.
lp_commit(r) ==
    /\ Ready /\ req[r].pc = "like"
    /\ UNCHANGED <<authVars, nextPodcastId, files, scratch, worker, favorites, chat>>
    /\ req' = Finish(r)
    /\ IF req[r].arg \in DOMAIN podcasts
       THEN /\ podcasts' = [podcasts EXCEPT ![req[r].arg].like_count = req[r].read + 1]
            /\ Respond("like", 200, req[r].u, req[r].arg, req[r].read + 1)
       ELSE /\ Respond("like", 500, req[r].u, req[r].arg, 0)
            /\ UNCHANGED podcasts

-----------------------------------------------------------------------------
(* Book listing: get_books, app.py 365-652 *)

\* books_db (lines 379-583); ratings in tenths.
Catalog ==
    <<
      [id |-> 1, title |-> "Pride and Prejudice", author |-> "Jane Austen",
       year |-> 1813, genre |-> "Romance", popularity |-> 98, rating |-> 47],
      [id |-> 2, title |-> "The Great Gatsby", author |-> "F. Scott Fitzgerald",
       year |-> 1925, genre |-> "Fiction", popularity |-> 93, rating |-> 45],
      [id |-> 3, title |-> "Frankenstein", author |-> "Mary Shelley",
       year |-> 1818, genre |-> "Horror", popularity |-> 92, rating |-> 46],
      [id |-> 4, title |-> "1984", author |-> "George Orwell",
       year |-> 1949, genre |-> "Science Fiction", popularity |-> 96, rating |-> 48],
      [id |-> 5, title |-> "To Kill a Mockingbird", author |-> "Harper Lee",
       year |-> 1960, genre |-> "Fiction", popularity |-> 94, rating |-> 48],
      [id |-> 6, title |-> "Wuthering Heights", author |-> "Emily Bronte",
       year |-> 1847, genre |-> "Gothic Fiction", popularity |-> 88, rating |-> 44],
      [id |-> 7, title |-> "Jane Eyre", author |-> "Charlotte Bronte",
       year |-> 1847, genre |-> "Romance", popularity |-> 91, rating |-> 46],
      [id |-> 8, title |-> "Brave New World", author |-> "Aldous Huxley",
       year |-> 1932, genre |-> "Science Fiction", popularity |-> 89, rating |-> 45],
      [id |-> 9, title |-> "Moby Dick", author |-> "Herman Melville",
       year |-> 1851, genre |-> "Adventure", popularity |-> 87, rating |-> 43],
      [id |-> 10, title |-> "The Catcher in the Rye", author |-> "J.D. Salinger",
       year |-> 1951, genre |-> "Fiction", popularity |-> 90, rating |-> 41],
      [id |-> 11, title |-> "The Hobbit", author |-> "J.R.R. Tolkien",
       year |-> 1937, genre |-> "Fantasy", popularity |-> 95, rating |-> 48],
      [id |-> 12, title |-> "The Picture of Dorian Gray", author |-> "Oscar Wilde",
       year |-> 1890, genre |-> "Philosophical Fiction", popularity |-> 86, rating |-> 44]
    >>

\* x['title'].lower() and x['author'].lower() of the books, as code points.
TitleKey ==
    <<
      <<112, 114, 105, 100, 101, 32, 97, 110, 100, 32, 112, 114, 101, 106,
        117, 100, 105, 99, 101>>,
      <<116, 104, 101, 32, 103, 114, 101, 97, 116, 32, 103, 97, 116, 115, 98,
        121>>,
      <<102, 114, 97, 110, 107, 101, 110, 115, 116, 101, 105, 110>>,
      <<49, 57, 56, 52>>,
      <<116, 111, 32, 107, 105, 108, 108, 32, 97, 32, 109, 111, 99, 107, 105,
        110, 103, 98, 105, 114, 100>>,
      <<119, 117, 116, 104, 101, 114, 105, 110, 103, 32, 104, 101, 105, 103,
        104, 116, 115>>,
      <<106, 97, 110, 101, 32, 101, 121, 114, 101>>,
      <<98, 114, 97, 118, 101, 32, 110, 101, 119, 32, 119, 111, 114, 108,
        100>>,
      <<109, 111, 98, 121, 32, 100, 105, 99, 107>>,
      <<116, 104, 101, 32, 99, 97, 116, 99, 104, 101, 114, 32, 105, 110, 32,
        116, 104, 101, 32, 114, 121, 101>>,
      <<116, 104, 101, 32, 104, 111, 98, 98, 105, 116>>,
      <<116, 104, 101, 32, 112, 105, 99, 116, 117, 114, 101, 32, 111, 102,
        32, 100, 111, 114, 105, 97, 110, 32, 103, 114, 97, 121>>
    >>
AuthorKey ==
    <<
      <<106, 97, 110, 101, 32, 97, 117, 115, 116, 101, 110>>,
      <<102, 46, 32, 115, 99, 111, 116, 116, 32, 102, 105, 116, 122, 103,
        101, 114, 97, 108, 100>>,
      <<109, 97, 114, 121, 32, 115, 104, 101, 108, 108, 101, 121>>,
      <<103, 101, 111, 114, 103, 101, 32, 111, 114, 119, 101, 108, 108>>,
      <<104, 97, 114, 112, 101, 114, 32, 108, 101, 101>>,
      <<101, 109, 105, 108, 121, 32, 98, 114, 111, 110, 116, 235>>,
      <<99, 104, 97, 114, 108, 111, 116, 116, 101, 32, 98, 114, 111, 110,
        116, 235>>,
      <<97, 108, 100, 111, 117, 115, 32, 104, 117, 120, 108, 101, 121>>,
      <<104, 101, 114, 109, 97, 110, 32, 109, 101, 108, 118, 105, 108, 108,
        101>>,
      <<106, 46, 100, 46, 32, 115, 97, 108, 105, 110, 103, 101, 114>>,
      <<106, 46, 114, 46, 114, 46, 32, 116, 111, 108, 107, 105, 101, 110>>,
      <<111, 115, 99, 97, 114, 32, 119, 105, 108, 100, 101>>
    >>

BookIds == 1..Len(Catalog)

\* A query argument: the text after "=" as characters, or not given.
NotGiven == [given |-> FALSE, text |-> << >>]
Given(text) == [given |-> TRUE, text |-> text]

DigitValue ==
    [c \in {"0", "1", "2", "3", "4", "5", "6", "7", "8", "9"} |->
        CASE c = "0" -> 0 [] c = "1" -> 1 [] c = "2" -> 2 [] c = "3" -> 3
          [] c = "4" -> 4 [] c = "5" -> 5 [] c = "6" -> 6 [] c = "7" -> 7
          [] c = "8" -> 8 [] c = "9" -> 9]

\* int(text): the text is an optional sign and at least one digit, else
\* ValueError.
AllDigits(text) ==
    Len(text) > 0 /\ \A i \in 1..Len(text) : text[i] \in DOMAIN DigitValue
IsInt(text) ==
    \/ AllDigits(text)
    \/ Len(text) > 1 /\ text[1] \in {"-", "+"} /\ AllDigits(Tail(text))

RECURSIVE Decimal(_)
Decimal(digits) ==
    IF digits = << >> THEN 0
    ELSE 10 * Decimal(SubSeq(digits, 1, Len(digits) - 1))
            + DigitValue[digits[Len(digits)]]

int(text) ==
    IF text[1] = "-" THEN 0 - Decimal(Tail(text))
    ELSE IF text[1] = "+" THEN Decimal(Tail(text))
    ELSE Decimal(text)

\* str.lower() on the genre texts the model uses.
lower(text) ==
    CASE text = "Romance" -> "romance"
      [] text = "ROMANCE" -> "romance"
      [] text = "Fiction" -> "fiction"
      [] text = "Horror" -> "horror"
      [] text = "Science Fiction" -> "science fiction"
      [] text = "Gothic Fiction" -> "gothic fiction"
      [] text = "Adventure" -> "adventure"
      [] text = "Fantasy" -> "fantasy"
      [] text = "Philosophical Fiction" -> "philosophical fiction"
      [] text = "All" -> "all"
      [] OTHER -> text

\* Python's a // b for b # 0: the floor of the quotient.
FloorDiv(a, b) == IF b > 0 THEN a \div b ELSE (0 - a) \div (0 - b)

\* Python's list[start:end].
Slice(list, start, end) ==
    LET n == Len(list)
        Norm(i) == IF i < 0 THEN (IF n + i < 0 THEN 0 ELSE n + i)
                   ELSE IF i > n THEN n ELSE i
    IN  SubSeq(list, Norm(start) + 1, Norm(end))

\* Lexicographic order of two sort keys (sequences of numbers).
RECURSIVE KeyLess(_, _)
KeyLess(a, b) ==
    IF b = << >> THEN FALSE
    ELSE IF a = << >> THEN TRUE
    ELSE IF Head(a) # Head(b) THEN Head(a) < Head(b)
    ELSE KeyLess(Tail(a), Tail(b))

\* The key function of each sort_by the handler knows (lines 600-609).
SortKeys == {"title", "author", "year", "popularity", "rating"}
SortKey(sort_by, b) ==
    CASE sort_by = "title" -> TitleKey[b]
      [] sort_by = "author" -> AuthorKey[b]
      [] sort_by = "year" -> <<Catalog[b].year>>
      [] sort_by = "popularity" -> <<Catalog[b].popularity>>
      [] sort_by = "rating" -> <<Catalog[b].rating>>

\* list.sort(key, reverse): a stable sort; with reverse the equal elements
\* keep their order too.  x goes behind every element that does not have
\* to follow it.  (The variant leaves the list as it is.)
Unsorted(list, sort_by, reverse) == list
RECURSIVE Sorted(_, _, _)
Sorted(list, sort_by, reverse) ==
    IF list = << >> THEN << >>
    ELSE LET front == Sorted(SubSeq(list, 1, Len(list) - 1), sort_by, reverse)
             x == list[Len(list)]
             Follows(y) == IF reverse
                           THEN KeyLess(SortKey(sort_by, y), SortKey(sort_by, x))
                           ELSE KeyLess(SortKey(sort_by, x), SortKey(sort_by, y))
             k == Cardinality({i \in 1..Len(front) : ~Follows(front[i])})
         IN  SubSeq(front, 1, k) \o <<x>> \o SubSeq(front, k + 1, Len(front))

\* The genre filter of lines 589-590, on the ids of the books.
Filtered(genre) ==
    IF genre # "" /\ genre # "all"
    THEN SelectSeq([i \in BookIds |-> i], LAMBDA b : lower(Catalog[b].genre) = genre)
    ELSE [i \in BookIds |-> i]

\* total_pages of line 613; the variant rounds down.
TotalPagesTruncated(total, per_page) == FloorDiv(total, per_page)
TotalPages(total, per_page) == FloorDiv(total + per_page - 1, per_page)

DefaultPage == 1
DefaultPerPage == 12

\* The listing of lines 586-637 for the arguments parsed.
Listing(page, per_page, genre, sort_by, sort_order) ==
    LET filtered == Filtered(genre)
        sorted == IF sort_by \in SortKeys
                  THEN Sorted(filtered, sort_by, sort_order = "desc")
                  ELSE filtered
        start_idx == (page - 1) * per_page
    IN  [books |-> Slice(sorted, start_idx, start_idx + per_page),
         current_page |-> page, per_page |-> per_page,
         total_books |-> Len(filtered),
         total_pages |-> TotalPages(Len(filtered), per_page),
         has_next |-> page < TotalPages(Len(filtered), per_page),
         has_prev |-> page > 1]

\* get_books; q holds the query arguments page, per_page (NotGiven or
\* Given), genre ("" when not given), sort_by and sort_order.  No search
\* text is sent.  A text that is no integer raises ValueError, 400; per_page
\* = 0 raises ZeroDivisionError, which the generic handler answers with 500.
get_books(h, q) ==
    /\ Ready
    /\ UNCHANGED <<authVars, podVars, favorites, chat, req>>
    /\ LET page == IF q.page.given THEN int(q.page.text) ELSE DefaultPage
           per_page == IF q.per_page.given THEN int(q.per_page.text) ELSE DefaultPerPage
       IN
       IF jwt_required(h) # 0
       THEN Respond("books", 401, 0, 0, [query |-> q])
       ELSE IF \/ q.page.given /\ ~IsInt(q.page.text)
               \/ q.per_page.given /\ ~IsInt(q.per_page.text)
       THEN Respond("books", 400, get_current_user(h), 0, [query |-> q])
       ELSE IF per_page = 0
       THEN Respond("books", 500, get_current_user(h), 0, [query |-> q])
       ELSE Respond("books", 200, get_current_user(h), 0,
                    [query |-> q,
                     list |-> Listing(page, per_page, lower(q.genre),
                                      q.sort_by, q.sort_order)])

DefaultQuery ==
    [page |-> NotGiven, per_page |-> NotGiven, genre |-> "",
     sort_by |-> "popularity", sort_order |-> "desc"]

-----------------------------------------------------------------------------
(* Favorites: app.py 1073-1186, models.py 193-235 *)

FavoritesOf(u) == {k \in BagToSet(favorites) : k[1] = u}

\* get_favorite_books: the favorites that are among the three books the
\* handler lists.
get_favorite_books(h) ==
    ReadOnly("favorites", h, 0,
             {k[2] : k \in FavoritesOf(get_current_user(h))} \cap 1..3)

\* The range check of line 1144 (and the handler without it).
InCatalogUnchecked(b) == TRUE
InCatalog(b) == CatalogMin <= b /\ b <= CatalogMax

\* The pre-check of lines 1138-1141 (and the handler without it).
AlreadyFavoriteSkipped(u, b) == FALSE
AlreadyFavorite(u, b) == BagIn(<<u, b>>, favorites)

\* UniqueConstraint('user_id', 'book_id'): an INSERT of a pair the table
\* holds is refused (and the table without the constraint).
unique_user_book_dropped(u, b) == TRUE
unique_user_book(u, b) == ~BagIn(<<u, b>>, favorites)

\* add_favorite_book up to the range check: lines 1130-1145.
add_favorite_book(r, h, b) ==
    /\ Ready /\ Free(r)
    /\ UNCHANGED <<authVars, podVars, favorites, chat>>
    /\ LET u == get_current_user(h) IN
       IF jwt_required(h) # 0
       THEN Respond("add_favorite", 401, 0, b, "") /\ UNCHANGED req
       ELSE IF AlreadyFavorite(u, b)
       THEN Respond("add_favorite", 200, u, b, "Book already in favorites")
            /\ UNCHANGED req
       ELSE IF ~InCatalog(b)
       THEN Respond("add_favorite", 404, u, b, "Book not found") /\ UNCHANGED req
       ELSE /\ req' = [req EXCEPT ![r] = [pc |-> "fav_insert", u |-> u, arg |-> b]]
            /\ UNCHANGED resp

\* db.session.add(favorite); commit: lines 1147-1162.  The IntegrityError of
\* the unique constraint is caught, rolled back and answered with 500.
af_commit(r) ==
    /\ Ready /\ req[r].pc = "fav_insert"
    /\ UNCHANGED <<authVars, podVars, chat>>
    /\ req' = Finish(r)
    /\ IF unique_user_book(req[r].u, req[r].arg)
       THEN /\ favorites' = favorites (+) SetToBag({<<req[r].u, req[r].arg>>})
            /\ Respond("add_favorite", 201, req[r].u, req[r].arg, "Book added to favorites")
       ELSE /\ UNCHANGED favorites
            /\ Respond("add_favorite", 500, req[r].u, req[r].arg, "Error adding favorite")

\* remove_favorite_book up to the query: lines 1164-1174.
remove_favorite_book(r, h, b) ==
    /\ Ready /\ Free(r)
    /\ UNCHANGED <<authVars, podVars, favorites, chat>>
    /\ LET u == get_current_user(h) IN
       IF jwt_required(h) # 0
       THEN Respond("remove_favorite", 401, 0, b, "") /\ UNCHANGED req
       ELSE IF ~BagIn(<<u, b>>, favorites)
       THEN Respond("remove_favorite", 404, u, b, "Favorite not found") /\ UNCHANGED req
       ELSE /\ req' = [req EXCEPT ![r] = [pc |-> "fav_delete", u |-> u, arg |-> b]]
            /\ UNCHANGED resp

\* db.session.delete(favorite); commit: lines 1176-1182.  The row is deleted
\* by its primary key; a DELETE that matches no row only warns.
rf_commit(r) ==
    /\ Ready /\ req[r].pc = "fav_delete"
    /\ UNCHANGED <<authVars, podVars, chat>>
    /\ req' = Finish(r)
    /\ favorites' = favorites (-) SetToBag({<<req[r].u, req[r].arg>>})
    /\ Respond("remove_favorite", 200, req[r].u, req[r].arg, "Book removed from favorites")

-----------------------------------------------------------------------------
(* Chat: app.py 1188-1361 *)

\* chat_with_ai: the user's message and the reply are stored in one commit.
chat_with_ai(h, message, session) ==
    /\ Ready
    /\ UNCHANGED <<authVars, podVars, favorites, req>>
    /\ LET u == get_current_user(h) IN
       IF jwt_required(h) # 0
       THEN Respond("chat", 401, 0, 0, 0) /\ UNCHANGED chat
       ELSE IF message = ""
       THEN Respond("chat", 400, u, 0, 0) /\ UNCHANGED chat
       ELSE /\ chat[<<u, session>>] + 2 <= MaxChatRows
            /\ chat' = [chat EXCEPT ![<<u, session>>] = @ + 2]
            /\ Respond("chat", 200, u, 0, 0)

get_chat_history(h, session) ==
    ReadOnly("chat_history", h, 0,
             IF get_current_user(h) = 0 THEN 0 ELSE chat[<<get_current_user(h), session>>])

clear_chat_session(h, session) ==
    /\ Ready
    /\ UNCHANGED <<authVars, podVars, favorites, req>>
    /\ LET u == get_current_user(h) IN
       IF jwt_required(h) # 0
       THEN Respond("chat_clear", 401, 0, 0, 0) /\ UNCHANGED chat
       ELSE /\ chat' = [chat EXCEPT ![<<u, session>>] = 0]
            /\ Respond("chat_clear", 200, u, 0, 0)

-----------------------------------------------------------------------------
(* Admin endpoints: app.py 130-133, 1363-1489.  All of them only read. *)

AdminOps == {"admin_panel", "admin_users", "admin_podcasts", "admin_stats"}

admin_endpoint(op, h) ==
    /\ Ready
    /\ UNCHANGED <<authVars, podVars, favorites, chat, req>>
    /\ IF admin_required(h) # 0
       THEN Respond(op, admin_required(h), 0, 0, 0)
       ELSE Respond(op, 200, get_current_user(h), 0, 0)

-----------------------------------------------------------------------------
(* Specifications *)

GenerateShapes == {"ok", "missing", "blank title", "blank author"}

\* Headers of well-behaved clients: a token login issued.
ClientHeaders == {Bearer(t) : t \in issued}

\* The podcast endpoints, for requests in the slots S with headers from H.
PodcastNext(S, H, plays) ==
    \/ \E r \in S, h \in H, b \in PodcastBooks, shape \in GenerateShapes :
           generate_podcast(r, h, b, shape)
    \/ \E r \in S : gp_insert(r)
    \/ \E r \in S : gp_start(r)
    \/ \E r \in S : gp_flip(r)
    \/ \E r \in S : gp_reply(r)
    \/ \E h \in H, p \in PodcastIds, play \in plays : get_podcast(h, p, play)
    \/ \E r \in S, h \in H, p \in PodcastIds, removed \in BOOLEAN :
           delete_podcast(r, h, p, removed)
    \/ \E r \in S : dp_commit(r)

LoginNext(bodies, emails) ==
    \E body \in bodies, email \in emails, password \in Passwords :
        login(body, email, password)

\* The podcast lifecycle under concurrent requests: logged-in clients create,
\* read and delete podcasts in MaxReq threads while the workers run.
Next ==
    \/ LoginNext({"ok"}, Emails \ {"not-an-email"})
    \/ PodcastNext(Slots, ClientHeaders, {FALSE})
    \/ WorkerNext
    \/ Deliver
Spec == Init /\ [][Next]_vars

\* Access to podcasts: one request at a time, with or without a valid
\* token, reads that count plays, and the workers.
NextAccess ==
    \/ LoginNext({"ok", "missing"}, Emails)
    \/ PodcastNext({1}, ClientHeaders \cup {NoHeader}, BOOLEAN)
    \/ WorkerNext
    \/ Deliver
SpecAccess == Init /\ [][NextAccess]_vars

\* The favorites endpoints, for requests in the slots S.
FavoriteNext(S, H, B) ==
    \/ \E r \in S, h \in H, b \in B : add_favorite_book(r, h, b)
    \/ \E r \in S : af_commit(r)
    \/ \E r \in S, h \in H, b \in B : remove_favorite_book(r, h, b)
    \/ \E r \in S : rf_commit(r)
    \/ \E h \in H : get_favorite_books(h)

\* Favorites, one request at a time.
NextFavSeq ==
    \/ LoginNext({"ok"}, Emails)
    \/ FavoriteNext({1}, ClientHeaders \cup {NoHeader}, FavoriteBooks)
    \/ Deliver
SpecFavSeq == Init /\ [][NextFavSeq]_vars

\* Favorites under concurrent requests.
NextFav ==
    \/ LoginNext({"ok"}, Emails \ {"not-an-email"})
    \/ FavoriteNext(Slots, ClientHeaders, FavoriteBooks)
    \/ Deliver
SpecFav == Init /\ [][NextFav]_vars

\* Tokens: login, validation of genuine, altered and expired tokens, logout
\* and a protected read, while the clock advances.
NextAuth ==
    \/ LoginNext({"ok", "missing"}, Emails)
    \/ \E empty \in BOOLEAN, t \in TokenInputs : validate_token(empty, t)
    \/ \E h \in HeaderInputs : logout(h)
    \/ \E h \in HeaderInputs : profile(h)
    \/ Tick(TickHours)
    \/ Deliver
SpecAuth == Init /\ [][NextAuth]_vars

\* A request to a protected endpoint (profile, books, podcasts, favorites,
\* chat, logout) that carries the header h, taking the request slot 1.
ProtectedRequest(h) ==
    \/ logout(h)
    \/ profile(h)
    \/ update_profile(1, h, Absent, Absent, "reader")
    \/ change_password(h, "User@123", "abc")
    \/ get_books(h, DefaultQuery)
    \/ get_genres(h)
    \/ \E b \in {CatalogMin} : get_book(h, b)
    \/ \E b \in PodcastBooks, shape \in GenerateShapes : generate_podcast(1, h, b, shape)
    \/ get_user_podcasts(h)
    \/ \E p \in PodcastIds : get_podcast(h, p, FALSE)
    \/ \E p \in PodcastIds, removed \in BOOLEAN : delete_podcast(1, h, p, removed)
    \/ \E p \in PodcastIds : like_podcast(1, h, p)
    \/ get_favorite_books(h)
    \/ \E b \in {CatalogMin} : add_favorite_book(1, h, b)
    \/ \E b \in {CatalogMin} : remove_favorite_book(1, h, b)
    \/ \E s \in Sessions : chat_with_ai(h, "hello", s)
    \/ \E s \in Sessions : get_chat_history(h, s)
    \/ \E s \in Sessions : clear_chat_session(h, s)

\* A request to an admin endpoint.
AdminRequest(h) == \E op \in AdminOps : admin_endpoint(op, h)

\* The later steps of the handler that holds the request slot 1.
HandlerStep ==
    \/ gp_insert(1) \/ gp_start(1) \/ gp_flip(1) \/ gp_reply(1)
    \/ dp_commit(1) \/ lp_commit(1) \/ af_commit(1) \/ rf_commit(1)

\* Every protected endpoint and every admin endpoint, one request at a time,
\* under every kind of Authorization header, before and after a token's
\* lifetime has passed.  The test user is the one who logs in; the worker
\* threads are not scheduled.
NextGate ==
    \/ LoginNext({"ok"}, {"user@educast.com"})
    \/ Tick(JWT_EXPIRATION)
    \/ \E h \in HeaderInputs : ProtectedRequest(h)
    \/ \E h \in HeaderInputs : AdminRequest(h)
    \/ HandlerStep
    \/ Deliver
SpecGate == Init /\ [][NextGate]_vars

\* Accounts: concurrent register and profile-update requests.
RegisterEmails == {"new@educast.com", "user@educast.com", "not-an-email"}
WeakPasswords == {"abc", "abcdefgh", "Abcdefgh", "Abcdefg1", "ABCDEFG1@"}
NextUsers ==
    \/ LoginNext({"ok"}, {"user@educast.com"})
    \/ \E r \in Slots, body \in {"ok", "missing"}, name \in {"New User", "x"},
          email \in RegisterEmails, password \in {"Fresh@123"} \cup WeakPasswords :
           register(r, body, name, email, password)
    \/ \E r \in Slots : rg_commit(r)
    \/ \E r \in Slots, h \in ClientHeaders,
          email \in {Absent, "new@educast.com", "admin@educast.com"} :
           update_profile(r, h, Absent, email, Absent)
    \/ \E r \in Slots : up_commit(r)
    \/ Deliver
SpecUsers == Init /\ [][NextUsers]_vars

\* Names: register and profile-update requests, one at a time, that send
\* valid and invalid names.
NamesSent == {"New User", "O'Neil Jr.", "Ann Lee", "x", "R2-D2"}
NextNames ==
    \/ LoginNext({"ok"}, {"user@educast.com"})
    \/ \E body \in {"ok", "missing"}, name \in NamesSent, password \in {"Fresh@123", "abc"} :
           register(1, body, name, "new@educast.com", password)
    \/ rg_commit(1)
    \/ \E h \in ClientHeaders, name \in NamesSent \cup {Absent},
          bio \in {Absent, "reader"} :
           update_profile(1, h, name, Absent, bio)
    \/ Deliver
SpecNames == Init /\ [][NextNames]_vars

\* The book listing under the queries of a logged-in client.
PageArgs ==
    {NotGiven} \cup {Given(t) : t \in {<<"0">>, <<"1">>, <<"2">>, <<"3">>, <<"4">>,
                                       <<"-", "1">>, <<"x">>}}
PerPageArgs ==
    {NotGiven} \cup {Given(t) : t \in {<<"0">>, <<"1">>, <<"5">>, <<"1", "2">>,
                                       <<"-", "5">>, <<"5", "x">>}}
GenreArgs == {"", "all", "Romance", "ROMANCE", "Fiction", "Science Fiction", "Fic"}
SortByArgs == SortKeys \cup {"pages"}
Queries ==
    [page : PageArgs, per_page : PerPageArgs, genre : GenreArgs,
     sort_by : SortByArgs, sort_order : {"asc", "desc"}]
NextBooks ==
    \/ LoginNext({"ok"}, {"user@educast.com"})
    \/ \E h \in ClientHeaders, q \in Queries : get_books(h, q)
    \/ Deliver
SpecBooks == Init /\ [][NextBooks]_vars

\* Ownership of podcasts: both users logged in, one request at a time,
\* reads that count plays, likes, and the workers.
NextOwner ==
    \/ LoginNext({"ok"}, Emails \ {"not-an-email"})
    \/ PodcastNext({1}, ClientHeaders, BOOLEAN)
    \/ \E h \in ClientHeaders, p \in PodcastIds : like_podcast(1, h, p)
    \/ lp_commit(1)
    \/ WorkerNext
    \/ Deliver
SpecOwner == Init /\ [][NextOwner]_vars

\* The podcast lifecycle under fair scheduling: a thread that can take its
\* next step takes it (a handler past its first query, a worker, the
\* delivery of a response); clients send requests or not, as they like.
\* The synthesis and the trim return, with either outcome.  A thread's step
\* is disabled while a response is being delivered, which happens again and
\* again when clients keep sending requests: the threads get strong
\* fairness, so that such traffic cannot starve them.
HandlerNext == \E r \in Slots : gp_insert(r) \/ gp_start(r) \/ gp_flip(r)
                                    \/ gp_reply(r) \/ dp_commit(r)
Fairness ==
    /\ \A p \in PodcastIds : SF_vars(p \in DOMAIN worker /\ WorkerNext
                                          /\ worker'[p] # worker[p])
    /\ \A r \in Slots : SF_vars(HandlerNext /\ req'[r] # req[r])
    /\ WF_vars(Deliver)
SpecLive == Spec /\ Fairness

\* Concurrent likes: logged-in clients create podcasts one at a time and
\* like them in MaxReq threads.
NextLikes ==
    \/ LoginNext({"ok"}, Emails \ {"not-an-email"})
    \/ \E h \in ClientHeaders, b \in PodcastBooks : generate_podcast(1, h, b, "ok")
    \/ gp_insert(1) \/ gp_start(1) \/ gp_flip(1) \/ gp_reply(1)
    \/ \E r \in Slots, h \in ClientHeaders, p \in PodcastIds : like_podcast(r, h, p)
    \/ \E r \in Slots : lp_commit(r)
    \/ Deliver
SpecLikes == Init /\ [][NextLikes]_vars

-----------------------------------------------------------------------------
(* Claims about the podcast lifecycle *)

\* C1: at most one Podcast row exists per (user, book_id) pair, also when
\* two creates for the same pair run concurrently.
C1_OnePodcastPerPair ==
    \A p \in DOMAIN podcasts, q \in DOMAIN podcasts :
        (podcasts[p].user_id = podcasts[q].user_id
            /\ podcasts[p].book_id = podcasts[q].book_id) => p = q

\* C2: the persisted status of a row changes only along pending->processing,
\* processing->completed and processing->failed.
StatusMoves ==
    {<<"pending", "processing">>, <<"processing", "completed">>,
     <<"processing", "failed">>}
C2_StatusMachine ==
    [][\A p \in (DOMAIN podcasts) \cap (DOMAIN podcasts') :
          podcasts'[p].status # podcasts[p].status
              => <<podcasts[p].status, podcasts'[p].status>> \in StatusMoves]_vars

\* The podcasts whose delete request has answered success: rows go away only
\* by the commit of delete_podcast, which sends that answer.
Deleted == {p \in 1..(nextPodcastId - 1) : p \notin DOMAIN podcasts}

\* C3: once delete(user, podcast_id) has returned success, neither the row
\* nor an audio file of that podcast exists, then and ever after.
C3_DeleteRemovesRowAndFile ==
    /\ (resp.op = "delete" /\ resp.code = 200)
           => (resp.arg \notin DOMAIN podcasts /\ resp.arg \notin files)
    /\ \A p \in Deleted : p \notin files

\* C4: a delete or read of a podcast id that does not exist, or that is
\* another user's, answers 404 and leaves every row and every file as it was.
C4_NotFoundChangesNothing ==
    [][(/\ resp = NoResp
        /\ resp'.op \in {"get", "delete"}
        /\ resp'.u # 0
        /\ (resp'.arg \notin DOMAIN podcasts
               \/ podcasts[resp'.arg].user_id # resp'.u))
          => (resp'.code = 404 /\ podcasts' = podcasts /\ files' = files)]_vars

\* A delete of another user's completed podcast has answered 404.
C4_Witness ==
    /\ resp.op = "delete" /\ resp.code = 404
    /\ resp.arg \in DOMAIN podcasts
    /\ podcasts[resp.arg].user_id # resp.u
    /\ resp.arg \in files

\* C16: a failed generation is terminal: a row whose status is failed keeps
\* that status as long as it exists, whatever request or worker steps, and
\* no worker is started for it.
C16_FailedIsTerminal ==
    [][\A p \in DOMAIN podcasts :
          podcasts[p].status = "failed" =>
              /\ p \in DOMAIN podcasts' => podcasts'[p].status = "failed"
              /\ (p \in DOMAIN worker' /\ worker'[p].pc = "load")
                    => (p \in DOMAIN worker /\ worker[p].pc = "load")]_vars

\* C17: the response of a create request that inserted a row reports
\* status=processing and progress=10, and the handler's flip before it takes
\* the row from pending/0 to processing/10.
C17_CreateReportsProcessing ==
    [][/\ (resp = NoResp /\ resp'.op = "generate" /\ resp'.code = 200
                         /\ resp'.data.created)
            => (resp'.data.status = "processing" /\ resp'.data.progress = 10)
       /\ \A r \in Slots :
            (req[r].pc = "flip" /\ req'[r].pc = "reply")
                => (/\ podcasts[req[r].arg].status = "pending"
                    /\ podcasts[req[r].arg].progress = 0
                    /\ podcasts'[req[r].arg].status = "processing"
                    /\ podcasts'[req[r].arg].progress = 10)]_vars

\* C18: the fields of a Podcast row, its like and play counters included,
\* change only in a step of a request authenticated as the row's owner or
\* in a step of the row's own worker.
C18_OnlyOwnerChangesRow ==
    [][\A p \in DOMAIN podcasts :
          (p \notin DOMAIN podcasts' \/ podcasts'[p] # podcasts[p]) =>
              \/ p \in DOMAIN worker /\ worker'[p] # worker[p]
              \/ \E r \in Slots : /\ req[r].pc # "idle"
                                  /\ req'[r] # req[r]
                                  /\ req[r].u = podcasts[p].user_id
              \/ resp' # NoResp /\ resp'.u = podcasts[p].user_id]_vars

\* C19: every Podcast row has its progress in {0, 10, 30, 70, 100}, hence in
\* 0..100, and its status among pending, processing, completed and failed;
\* the validator accepts the status cancelled, yet no row ever has it.
ProgressValues == {0, 10, 30, 70, 100}
ReachedStatuses == {"pending", "processing", "completed", "failed"}
C19_ProgressAndStatusRange ==
    /\ validate_status("cancelled")
    /\ \A p \in DOMAIN podcasts :
          /\ podcasts[p].progress \in ProgressValues
          /\ validate_progress(podcasts[p].progress)
          /\ podcasts[p].status \in ReachedStatuses
          /\ validate_status(podcasts[p].status)
C19_Witness ==
    /\ \E p \in DOMAIN podcasts :
          podcasts[p].status = "completed" /\ podcasts[p].progress = 100
    /\ \E p \in DOMAIN podcasts :
          podcasts[p].status = "failed" /\ podcasts[p].progress \in {30, 70}

\* C20: a create request that inserts a row starts exactly one worker, for
\* that row; it inserts, and so starts a worker, only when no podcast of its
\* (user, book) exists; a request refused by validation or answered with the
\* existing podcast starts none; a worker is started at most once per id.
C20_InsertsOnlyWhenNoneExists ==
    \A r \in Slots :
        (req[r].pc = "insert" /\ req'[r] # req[r])
            => PodcastsOf(req[r].u, req[r].arg) = {}
C20_InsertStartsWorker ==
    \A r \in Slots :
        (req[r].pc = "start" /\ req'[r] # req[r])
            => (req[r].arg \notin DOMAIN worker /\ req[r].arg \in DOMAIN worker')
C20_NoWorkerWithoutInsert ==
    (/\ resp = NoResp /\ resp' # NoResp /\ resp'.op = "generate"
     /\ \/ resp'.code = 400
        \/ resp'.code = 200 /\ ~resp'.data.created)
        => (worker' = worker /\ podcasts' = podcasts /\ req' = req)
C20_OneWorkerPerId ==
    \A p \in DOMAIN worker' :
        (p \notin DOMAIN worker \/ (worker'[p].pc = "load" /\ worker[p].pc # "load"))
            => /\ p \notin DOMAIN worker
               /\ \E r \in Slots : /\ req[r].pc = "start" /\ req[r].arg = p
                                   /\ req'[r].pc = "flip"
C20_OneWorkerPerCreate ==
    [][/\ C20_InsertsOnlyWhenNoneExists
       /\ C20_InsertStartsWorker
       /\ C20_NoWorkerWithoutInsert
       /\ C20_OneWorkerPerId]_vars

\* C25: a create request answered with an error leaves nothing behind.  A
\* request refused with 400 or 401 changes no row, file or worker; a request
\* answered 500 after its insert leaves no row of the id it inserted and no
\* worker running for it.
C25_ErrorLeavesStore ==
    [][/\ (/\ resp = NoResp /\ resp' # NoResp /\ resp'.op = "generate"
           /\ resp'.code \in {400, 401})
             => UNCHANGED <<podVars, req>>
       /\ \A r \in Slots :
            (/\ req[r].pc \in {"start", "flip", "reply"} /\ req'[r] # req[r]
             /\ resp' # NoResp /\ resp'.code = 500)
               => /\ req[r].arg \notin DOMAIN podcasts'
                  /\ \/ req[r].arg \notin DOMAIN worker'
                     \/ worker'[req[r].arg].pc \in {"done", "returned"}]_vars

-----------------------------------------------------------------------------
(* Claims about the background worker *)

\* C21: a row whose status is completed has progress 100 and its audio_url
\* and completed_at set; and status becomes completed only in the worker's
\* final step, which is reached only through a successful synthesis, then a
\* successful trim and the move of the file to permanent storage.
C21_CompletedRowIsWhole ==
    \A p \in DOMAIN podcasts :
        podcasts[p].status = "completed" =>
            /\ podcasts[p].progress = 100
            /\ podcasts[p].audio_url
            /\ podcasts[p].completed_at
C21_CompletedOnlyAfterMove ==
    \A p \in PodcastIds :
        /\ (/\ p \in DOMAIN podcasts' /\ podcasts'[p].status = "completed"
            /\ (p \notin DOMAIN podcasts \/ podcasts[p].status # "completed"))
              => (At(p, "final") /\ p \in files /\ worker'[p].pc = "done")
        /\ (p \in DOMAIN worker' /\ worker'[p].pc = "final" /\ ~At(p, "final"))
              => (At(p, "trim") /\ p \in files')
        /\ (p \in DOMAIN worker' /\ worker'[p].pc = "trim" /\ ~At(p, "trim"))
              => (At(p, "tts") /\ p \in scratch)
C21_CompletedIsWhole ==
    []C21_CompletedRowIsWhole /\ [][C21_CompletedOnlyAfterMove]_vars
C21_Witness ==
    \E p \in DOMAIN podcasts :
        podcasts[p].status = "completed" /\ At(p, "done") /\ p \in files

\* C22, as stated: on every failure exit of the worker (synthesis failed,
\* trim failed, or an error was raised after the row was loaded) the worker's
\* last step commits status = failed with an error message, the row has no
\* audio_url and there is no permanent file of the podcast; and a run that
\* failed never writes completed.
FailureExit(p) ==
    /\ At(p, "tts") \/ At(p, "trim") \/ At(p, "except")
    /\ worker'[p].pc = "done"
WritesFailed(p) ==
    /\ p \in DOMAIN podcasts'
    /\ podcasts'[p].status = "failed"
    /\ podcasts'[p].error_message # ""
    /\ ~podcasts'[p].audio_url
    /\ p \notin files'
NeverCompletedAfterFailure(p) ==
    (At(p, "except") \/ At(p, "done")) =>
        ~(/\ p \in DOMAIN podcasts /\ p \in DOMAIN podcasts'
          /\ podcasts[p].status # "completed"
          /\ podcasts'[p].status = "completed")
C23_ScratchRemoved ==
    \A p \in DOMAIN worker :
        worker[p].pc \in {"done", "returned"} => p \notin scratch

\* C24: a worker that finds no row when it loads it ends there: it writes
\* nothing to the store, creates no scratch directory and no permanent file,
\* and never goes on to synthesis or trim.
C24_MissingRowEndsWorker ==
    [][\A p \in PodcastIds :
          /\ (At(p, "load") /\ p \notin DOMAIN podcasts /\ worker'[p] # worker[p])
                => /\ worker'[p].pc = "returned"
                   /\ UNCHANGED <<podcasts, scratch, files, users>>
          /\ At(p, "returned")
                => /\ At(p, "returned")'
                   /\ (p \in scratch') = (p \in scratch)
                   /\ (p \in files') = (p \in files)]_vars
C24_Witness ==
    \E p \in DOMAIN worker :
        /\ worker[p].pc = "returned"
        /\ p \notin DOMAIN podcasts /\ p \notin scratch /\ p \notin files

\* C26: under fair scheduling every podcast that was inserted and is not
\* deleted ends with status completed or failed and keeps it: from some
\* point on, the row, if it exists, has one of the two.
C26_EventuallyCompletedOrFailed ==
    \A p \in PodcastIds :
        <>[](p \in DOMAIN podcasts =>
                podcasts[p].status \in {"completed", "failed"})

\* C27: the progress of a row never decreases while the row exists.
C27_ProgressNeverDecreases ==
    [][\A p \in DOMAIN podcasts :
          p \in DOMAIN podcasts' => podcasts'[p].progress >= podcasts[p].progress]_vars

-----------------------------------------------------------------------------
(* Claims about likes *)

\* A like request of slot r answers 200 in this step.
LikeSucceeds(r) ==
    /\ req[r].pc = "like" /\ req'[r].pc = "idle"
    /\ resp'.op = "like" /\ resp'.code = 200

-----------------------------------------------------------------------------
(* Claims about authentication *)

\* Everything but the response in flight.
state == <<authVars, podVars, favorites, chat, req>>

\* The header carries a token that login issued, that has not expired and
\* whose user exists.
Authentic(h) ==
    /\ h.scheme = "Bearer"
    /\ h.token \in issued
    /\ now < h.token.exp
    /\ h.token.user_id \in DOMAIN users

\* C5: a request to a protected endpoint or to an admin endpoint without a
\* bearer token that verifies and resolves to an existing user is answered
\* 401 and changes no state; a request to an admin endpoint by a user whose
\* role is not admin is answered 403 and changes no state.
C5_GateRefuses ==
    [][resp = NoResp => \A h \in HeaderInputs :
          /\ (~Authentic(h) /\ (ProtectedRequest(h) \/ AdminRequest(h)))
                => (resp'.code = 401 /\ state' = state)
          /\ (Authentic(h) /\ users[h.token.user_id].role # "admin"
                           /\ AdminRequest(h))
                => (resp'.code = 403 /\ state' = state)]_vars

\* A delete of an existing podcast has been refused with 401 at a time when
\* a token login issued has expired.
C5_Witness ==
    /\ resp.op = "delete" /\ resp.code = 401
    /\ resp.arg \in DOMAIN podcasts
    /\ \E t \in issued : now >= t.exp

\* C6: login issues for user u a token that names u and expires after its
\* issue time; the validate endpoint answers a token of login that has not
\* expired with its user id and its expiry, and answers 401 to a token that
\* was altered or that has expired.
C6_TokenRoundTrip ==
    [][/\ (resp = NoResp /\ resp'.op = "login" /\ resp'.code = 200)
            => (/\ resp'.data \in issued'
                /\ resp'.data.user_id = resp'.u
                /\ users[resp'.u].email \in Emails
                /\ resp'.data.iat = now
                /\ resp'.data.exp > resp'.data.iat)
       /\ (resp = NoResp /\ resp'.op = "validate" /\ resp'.code # 400)
            => IF resp'.data \in issued /\ now < resp'.data.exp
               THEN /\ resp'.code = 200
                    /\ resp'.u = resp'.data.user_id
                    /\ resp'.arg = resp'.data.exp
                    /\ resp'.arg > resp'.data.iat
                    /\ resp'.arg > now
               ELSE resp'.code = 401]_vars

\* A token has been validated after its issue time and before its expiry.
C6_Witness ==
    /\ resp.op = "validate" /\ resp.code = 200
    /\ resp.data.iat < now /\ now < resp.data.exp

\* The step is a successful logout of user u.
LogoutOf(u) == resp = NoResp /\ resp'.op = "logout" /\ resp'.code = 200 /\ resp'.u = u

\* C7 as stated: a successful logout changes nothing but the user's
\* last_logout timestamp.
C7_LogoutOnlyLastLogout ==
    [][\A u \in DOMAIN users : LogoutOf(u) =>
          /\ users' = [users EXCEPT ![u].last_logout = now]
          /\ UNCHANGED <<now, issued, podVars, favorites, chat, req>>]_vars

\* C7: logout does not invalidate the token: a token of login resolves to
\* its user and passes jwt_required exactly as long as it has not expired, a
\* protected request with an unexpired token of a user who has logged out is
\* answered 200, and a successful logout changes nothing but the user's
\* last_logout and updated_at timestamps.
C7_LogoutKeepsToken ==
    /\ [](\A t \in issued :
             /\ get_current_user(Bearer(t)) = (IF now < t.exp THEN t.user_id ELSE 0)
             /\ jwt_required(Bearer(t)) = (IF now < t.exp THEN 0 ELSE 401))
    /\ [][\A t \in issued :
             (/\ now < t.exp
              /\ users[t.user_id].last_logout # NoTime
              /\ (logout(Bearer(t)) \/ profile(Bearer(t)))) => resp'.code = 200]_vars
    /\ [][\A u \in DOMAIN users : LogoutOf(u) =>
             /\ users' = [users EXCEPT ![u].last_logout = now, ![u].updated_at = now]
             /\ UNCHANGED <<now, issued, podVars, favorites, chat, req>>]_vars

\* After a logout at a later hour, the token that was used has answered a
\* protected request.
C7_Witness ==
    /\ resp.op = "profile" /\ resp.code = 200
    /\ users[resp.u].last_logout > 0
    /\ \E t \in issued : t.user_id = resp.u /\ t.iat < users[resp.u].last_logout
                         /\ now < t.exp

-----------------------------------------------------------------------------
(* Claims about favorites *)

\* C8: adding a book that is already the user's favorite, after the first
\* add has finished, answers success with "Book already in favorites" and
\* leaves the favorite rows as they were.
C8_SecondAddIsNoOp ==
    [][(/\ resp = NoResp
        /\ resp'.op = "add_favorite"
        /\ resp'.u # 0
        /\ BagIn(<<resp'.u, resp'.arg>>, favorites))
          => (/\ resp'.code = 200
              /\ resp'.data = "Book already in favorites"
              /\ favorites' = favorites)]_vars

\* A second add has answered while the row of the first is there.
C8_Witness ==
    /\ resp.op = "add_favorite" /\ resp.code = 200
    /\ resp.data = "Book already in favorites"
    /\ CopiesIn(<<resp.u, resp.arg>>, favorites) = 1

\* C9: in every reachable state there is at most one FavoriteBook row per
\* (user, book), also when duplicate adds run concurrently; the add that
\* loses the race creates no row.
C9_OneFavoritePerPair ==
    /\ [](\A k \in BagToSet(favorites) : CopiesIn(k, favorites) = 1)
    /\ [][(/\ resp = NoResp
           /\ resp'.op = "add_favorite"
           /\ resp'.code \notin {200, 201})
             => favorites' = favorites]_vars

\* The loser of two concurrent adds of the same pair has been refused.
C9_Witness ==
    /\ resp.op = "add_favorite" /\ resp.code = 500
    /\ CopiesIn(<<resp.u, resp.arg>>, favorites) = 1

\* C10: an add-favorite with a book id outside 1..12 answers 404 and creates
\* no row; every row's book_id is in 1..12.
C10_FavoriteBookInCatalog ==
    /\ [](\A k \in BagToSet(favorites) : k[2] \in CatalogMin..CatalogMax)
    /\ [][(/\ resp = NoResp
           /\ resp'.op = "add_favorite"
           /\ resp'.u # 0
           /\ resp'.arg \notin CatalogMin..CatalogMax)
             => (resp'.code = 404 /\ favorites' = favorites)]_vars

\* An add of book 13 has answered 404 while the user has favorites.
C10_Witness ==
    /\ resp.op = "add_favorite" /\ resp.code = 404
    /\ resp.arg = CatalogMax + 1
    /\ FavoritesOf(resp.u) # {}

\* C29: the list of favorites agrees with the table: the books it returns
\* are exactly the books of the user's FavoriteBook rows (a book added and
\* not removed is listed, a removed one is not), and the count it reports
\* is the number of those rows.
FavoriteRows(u) ==
    BagCardinality([k \in FavoritesOf(u) |-> CopiesIn(k, favorites)])
C29_ListAgreesWithTable ==
    (resp.op = "favorites" /\ resp.code = 200) =>
        /\ resp.data = {k[2] : k \in FavoritesOf(resp.u)}
        /\ Cardinality(resp.data) = FavoriteRows(resp.u)

-----------------------------------------------------------------------------
(* Claims about accounts *)

\* C11: no two User rows share an email; a register or an email change that
\* gets past validation and targets an email another user holds is answered
\* 409 and changes no User row.
C11_EmailUnique ==
    /\ [](\A u \in DOMAIN users, v \in DOMAIN users :
             users[u].email = users[v].email => u = v)
    /\ [][(/\ resp = NoResp
           /\ resp'.op \in {"register", "update_profile"}
           /\ resp'.code \notin {400, 401}
           /\ UserByEmail(resp'.data.email) \notin {0, resp'.u})
             => (resp'.code = 409 /\ users' = users)]_vars

\* What a message of validate_password names.
Mentions(message) ==
    CASE message = "Password must be at least 8 characters long" -> {"length"}
      [] message = "Password must contain at least one uppercase letter" -> {"uppercase"}
      [] message = "Password must contain at least one lowercase letter" -> {"lowercase"}
      [] message = "Password must contain at least one number" -> {"digit"}
      [] message = "Password must contain at least one special character" -> {"special"}
      [] OTHER -> {}

\* What a password lacks.
Missing(password) ==
    {c \in {"length", "uppercase", "lowercase", "digit", "special"} :
        \/ c = "length" /\ Len(Chars(password)) < MinPasswordLength
        \/ c = "uppercase" /\ ~Has(Upper, password)
        \/ c = "lowercase" /\ ~Has(Lower, password)
        \/ c = "digit" /\ ~Has(Digit, password)
        \/ c = "special" /\ ~Has(Special, password)}

\* C12: a register with a valid name and email and a weak password is
\* answered with a validation error whose message names everything the
\* password lacks, and creates no user.
C12_WeakPasswordEnumerated ==
    [][(/\ resp = NoResp
        /\ resp'.op = "register"
        /\ resp'.data.message # "All fields are required"
        /\ validate_name(resp'.data.name)[1]
        /\ validate_email(resp'.data.email)
        /\ Missing(resp'.data.password) # {})
          => (/\ resp'.code = 400
              /\ users' = users
              /\ Missing(resp'.data.password) \subseteq Mentions(resp'.data.message))]_vars

\* C30: the name of every stored user satisfies validate_name.
C30_StoredNamesValid ==
    \A u \in DOMAIN users : validate_name(users[u].name)[1]

-----------------------------------------------------------------------------
(* Claims about the book listing *)

\* The step answers a listing request with 200 for page and per_page texts
\* that read as the integers page and per_page.
Listed(page, per_page) ==
    /\ resp = NoResp
    /\ resp'.op = "books" /\ resp'.code = 200
    /\ resp'.data.list.current_page = page
    /\ resp'.data.list.per_page = per_page

\* C13 as stated: page=2 with per_page=5 against a 12-item filtered set
\* returns exactly 5 items with has_prev=true and has_next=false.
C13_SecondPageIsLast ==
    [][(Listed(2, 5) /\ resp'.data.list.total_books = 12)
          => (/\ Len(resp'.data.list.books) = 5
              /\ resp'.data.list.has_prev
              /\ ~resp'.data.list.has_next)]_vars

\* C13: page=2 with per_page=5 against a 12-item filtered set returns
\* exactly 5 items, all different, with has_prev=true and, the set having
\* 3 pages, has_next=true.
C13_SecondPageOfThree ==
    [][(Listed(2, 5) /\ resp'.data.list.total_books = 12)
          => (/\ Len(resp'.data.list.books) = 5
              /\ Cardinality({resp'.data.list.books[i] : i \in 1..5}) = 5
              /\ resp'.data.list.total_pages = 3
              /\ resp'.data.list.has_prev
              /\ resp'.data.list.has_next)]_vars

\* The second page of five of the whole catalog has been answered.
C13_Witness ==
    /\ resp.op = "books" /\ resp.code = 200
    /\ resp.data.query.page = Given(<<"2">>)
    /\ resp.data.query.per_page = Given(<<"5">>)
    /\ resp.data.list.total_books = 12
    /\ Len(resp.data.list.books) = 5

\* The integer a query argument reads as (the default when not given).
ArgValue(arg, default) == IF arg.given THEN int(arg.text) ELSE default
Min(a, b) == IF a < b THEN a ELSE b
Max(a, b) == IF a < b THEN b ELSE a

\* C14: for integer page and per_page the listing is 1-based and
\* well-defined: total_pages = ceil(n / per_page), the page holds
\* min(per_page, max(0, n - (page-1)*per_page)) items, has_prev iff page > 1,
\* has_next iff page < total_pages; a non-positive page or per_page is
\* answered 400.
C14_PaginationWellDefined ==
    [][(/\ resp = NoResp
        /\ resp'.op = "books" /\ resp'.code # 401
        /\ resp'.data.query.page.given => IsInt(resp'.data.query.page.text)
        /\ resp'.data.query.per_page.given => IsInt(resp'.data.query.per_page.text))
          => LET page == ArgValue(resp'.data.query.page, DefaultPage)
                 per_page == ArgValue(resp'.data.query.per_page, DefaultPerPage)
                 n == Cardinality({b \in BookIds :
                          lower(resp'.data.query.genre) \in
                              {"", "all", lower(Catalog[b].genre)}})
             IN  IF page >= 1 /\ per_page >= 1
                 THEN /\ resp'.code = 200
                      /\ resp'.data.list.total_books = n
                      /\ resp'.data.list.total_pages * per_page >= n
                      /\ (resp'.data.list.total_pages - 1) * per_page < n
                            \/ (n = 0 /\ resp'.data.list.total_pages = 0)
                      /\ Len(resp'.data.list.books)
                            = Min(per_page, Max(0, n - (page - 1) * per_page))
                      /\ resp'.data.list.has_prev <=> page > 1
                      /\ resp'.data.list.has_next <=> page < resp'.data.list.total_pages
                 ELSE resp'.code = 400]_vars

\* C15: the genre filter keeps exactly the catalog entries whose genre
\* equals the one asked for, whatever the case of the letters, and the sort
\* orders the filtered set by the chosen key in the chosen direction; with
\* genre=Romance, sort_by=year, sort_order=asc the listing is the two
\* Romance entries, the one of 1813 before the one of 1847.
C15_FilterAndSort ==
    [][(/\ resp = NoResp
        /\ resp'.op = "books" /\ resp'.code = 200
        /\ ~resp'.data.query.page.given
        /\ ~resp'.data.query.per_page.given)
          => LET q == resp'.data.query
                 books == resp'.data.list.books
             IN  /\ Cardinality({books[i] : i \in 1..Len(books)}) = Len(books)
                 /\ {books[i] : i \in 1..Len(books)}
                       = {b \in BookIds : lower(q.genre) \in
                                             {"", "all", lower(Catalog[b].genre)}}
                 /\ q.sort_by \in SortKeys =>
                       \A i \in 1..(Len(books) - 1) :
                           IF q.sort_order = "desc"
                           THEN ~KeyLess(SortKey(q.sort_by, books[i]),
                                         SortKey(q.sort_by, books[i + 1]))
                           ELSE ~KeyLess(SortKey(q.sort_by, books[i + 1]),
                                         SortKey(q.sort_by, books[i]))
                 /\ (q.genre = "Romance" /\ q.sort_by = "year" /\ q.sort_order = "asc")
                       => /\ Len(books) = 2
                          /\ \A i \in 1..2 : Catalog[books[i]].genre = "Romance"
                          /\ Catalog[books[1]].year <= Catalog[books[2]].year]_vars

\* The Romance entries have been listed by ascending year.
C15_Witness ==
    /\ resp.op = "books" /\ resp.code = 200
    /\ resp.data.query.genre = "Romance"
    /\ resp.data.query.sort_by = "year" /\ resp.data.query.sort_order = "asc"
    /\ ~resp.data.query.page.given /\ ~resp.data.query.per_page.given
    /\ Len(resp.data.list.books) = 2

====
